---- MODULE Spec2Model ----
(***************************************************************************)
(* Model of ros/serialization.h (roslib): the Stream triad (OStream,       *)
(* IStream, LStream), the per-type Serializer codecs, the Vector and Array *)
(* serializers in their three element strategies, and the message framing  *)
(* functions.                                                              *)
(*                                                                         *)
(* A buffer is a sequence of bytes; a pointer into it is the offset from   *)
(* the buffer's first byte (0-based), in a flat address space wider than   *)
(* 32 bits, so that pointer + uint32 does not wrap.  uint32_t arithmetic   *)
(* is kept modulo 2^32.  The host byte order is a free choice of the       *)
(* build (variable endian).                                                *)
(*                                                                         *)
(* TLC's integers stop at 2^31 - 1, so every 32-bit quantity, size and     *)
(* pointer offset is a wide number <<hi, lo>> standing for hi * 2^16 + lo  *)
(* with 0 <= lo < 2^16 (W, WAdd, WMul, U32 below).  Values of the 8- and   *)
(* 16-bit types are plain integers.                                        *)
(***************************************************************************)
EXTENDS Integers, Sequences, FiniteSets, TLC

VARIABLES endian, val, lstream, s, pass, out, ps, m

vars == <<endian, val, lstream, s, pass, out, ps, m>>

\* ------------------------------------------------------------------ bounds
\* longest string, vector and array of the checked values
MaxLen == 2
\* largest len a caller passes to a direct Stream::advance call
MaxAdvance == 3
\* largest buffer of a directly constructed Stream
MaxCount == 2
\* bytes a sufficiently large buffer has beyond the computed length
Slack == 2
\* most bytes that follow the count in a received buffer
MaxRest == 4

\* ------------------------------------------------------------- arithmetic
RECURSIVE Pow2(_)
Pow2(n) == IF n = 0 THEN 1 ELSE 2 * Pow2(n - 1)

\* the wide number of hi * 2^16 + lo, for any integers hi and lo
WNorm(hi, lo) == <<hi + (lo \div 65536), lo % 65536>>

\* the wide number of the integer n
W(n) == WNorm(0, n)

WAdd(a, b) == WNorm(a[1] + b[1], a[2] + b[2])
WSub(a, b) == WNorm(a[1] - b[1], a[2] - b[2])

\* a wide number times an integer k, 0 <= k < 2^15
WMul(a, k) == WNorm(a[1] * k, a[2] * k)

WLess(a, b) == a[1] < b[1] \/ (a[1] = b[1] /\ a[2] < b[2])
WLeq(a, b) == a = b \/ WLess(a, b)

\* the integer a wide number below 2^31 stands for
WInt(a) == a[1] * 65536 + a[2]

\* conversion to uint32_t
U32(a) == <<a[1] % 65536, a[2]>>

\* a byte whose value is indeterminate: of new uint8_t[n] before anything
\* is written to it, or of the memory next to a buffer
Indeterminate == -1

\* ------------------------------------------------------------------ types
\* A type is a tuple: <<kind>> for a primitive, <<"vec", elem>> for
\* std::vector<elem>, <<"arr", elem, N>> for boost::array<elem, N>,
\* <<"msg", n>> for a user aggregate of n encoded bytes that goes through
\* the default Serializer.
Kind(T) == T[1]
Elem(T) == T[2]
Arity(T) == T[3]
MsgSize(T) == T[2]

\* sizeof(Type) of the types ROS_CREATE_SIMPLE_SERIALIZER is instantiated for
SizeOf(T) ==
  CASE Kind(T) \in {"u8", "i8"} -> 1
    [] Kind(T) \in {"u16", "i16"} -> 2
    [] Kind(T) \in {"u32", "i32"} -> 4

IsSigned(T) == Kind(T) \in {"i8", "i16", "i32"}

\* mt::IsSimple<T>: the numeric primitives
IsSimple(T) == Kind(T) \in {"u8", "i8", "u16", "i16", "u32", "i32"}

\* mt::IsFixedSize<T>: numeric primitives, bool, time values, and fixed
\* arrays of fixed-size elements
RECURSIVE IsFixedSize(_)
IsFixedSize(T) ==
  CASE IsSimple(T) -> TRUE
    [] Kind(T) \in {"bool", "time", "duration"} -> TRUE
    [] Kind(T) = "arr" -> IsFixedSize(Elem(T))
    [] OTHER -> FALSE

\* the uint32_t that carries lengths and counts on the wire
U32T == <<"u32">>

\* ------------------------------------------------- in-memory representation
\* the w bytes of the unsigned integer n, least significant first
RECURSIVE LittleBytes(_, _)
LittleBytes(n, w) ==
  IF w = 0 THEN <<>> ELSE <<n % 256>> \o LittleBytes(n \div 256, w - 1)

Reverse(q) == [i \in 1..Len(q) |-> q[Len(q) + 1 - i]]

RECURSIVE LittleValue(_)
LittleValue(bytes) ==
  IF bytes = <<>> THEN 0 ELSE bytes[1] + 256 * LittleValue(Tail(bytes))

\* *reinterpret_cast<Type*>(p) = v : the bytes stored for v, in the byte
\* order e of the host
ObjectBytes(e, T, v) ==
  LET w == SizeOf(T)
      little == IF w = 4
                THEN LittleBytes(v[2], 2) \o LittleBytes(v[1] % 65536, 2)
                ELSE LittleBytes(v % Pow2(8 * w), w)
  IN IF e = "little" THEN little ELSE Reverse(little)

\* v = *reinterpret_cast<Type*>(p) : the value of the bytes at p
ObjectValue(e, T, bytes) ==
  LET w == SizeOf(T)
      little == IF e = "little" THEN bytes ELSE Reverse(bytes)
  IN IF w = 4
     THEN LET hi == LittleValue(SubSeq(little, 3, 4))
          IN <<IF IsSigned(T) /\ hi >= 32768 THEN hi - 65536 ELSE hi,
               LittleValue(SubSeq(little, 1, 2))>>
     ELSE LET n == LittleValue(little)
          IN IF IsSigned(T) /\ n >= Pow2(8 * w - 1) THEN n - Pow2(8 * w) ELSE n

\* --------------------------------------------------------------- Stream
\* Stream::Stream(_data, _count): data_ = _data, end_ = _data + _count.
\* buf is the memory _data points to.  exc is the exception in flight
\* ("none" when there is none).  granted holds the range <<p, q>> (the
\* offsets from p up to, not including, q) of every successful advance,
\* touched the range of every raw access the codecs made, and late tells
\* whether any of these accesses was made with an exception in flight.
Stream(buf, count) ==
  [buf |-> buf, data_ |-> W(0), end_ |-> count, exc |-> "none",
   granted |-> {}, touched |-> {}, late |-> FALSE]

\* Stream::getData
getData(st) == st.data_

\* Stream::getLength: (uint32_t)(end_ - data_)
getLength(st) == U32(WSub(st.end_, st.data_))

\* Stream::advance: data_ += len, then the check against end_.  The old
\* position it returns is the data_ of the stream it was called on.
advance(st, len) ==
  IF st.exc # "none" THEN st
  ELSE LET new == WAdd(st.data_, len)
       IN IF WLess(st.end_, new)
          THEN [st EXCEPT !.data_ = new, !.exc = "overrun"]
          ELSE [st EXCEPT !.data_ = new,
                          !.granted = @ \cup {<<st.data_, new>>}]

\* the index in 1..Len(buf) of the byte at offset p + i - 1, or 0 when that
\* byte lies outside the buffer
Index(buf, p, i) ==
  IF p[1] = 0 /\ p[2] + i <= Len(buf) THEN p[2] + i ELSE 0

\* a raw access to the n bytes at offset p (n a wide number)
Touch(st, p, n) ==
  IF n = W(0) THEN st
  ELSE [st EXCEPT !.touched = @ \cup {<<p, WAdd(p, n)>>},
                  !.late = @ \/ st.exc # "none"]

\* a raw store of bytes at offset p (assignment through the pointer, memcpy)
Store(st, p, bytes) ==
  LET off == IF p[1] = 0 THEN p[2] ELSE Len(st.buf)
  IN Touch([st EXCEPT !.buf = [i \in 1..Len(@) |->
                                 IF i - 1 >= off /\ i - 1 < off + Len(bytes)
                                 THEN bytes[i - off] ELSE @[i]]],
           p, W(Len(bytes)))

\* a raw load of the n bytes at offset p (n a wide number); a byte outside
\* the buffer is whatever the memory next to it holds, and of a load of
\* 65536 bytes or more only the first Len(buf) + 1 bytes are kept
Load(st, p, n) ==
  LET k == IF n[1] = 0 THEN n[2] ELSE Len(st.buf) + 1
  IN [i \in 1..k |-> IF Index(st.buf, p, i) # 0 THEN st.buf[Index(st.buf, p, i)]
                     ELSE Indeterminate]

\* LStream::advance: count_ += len
LStream_advance(c, len) == U32(WAdd(c, U32(len)))

\* ------------------------------------------------------- OStream: write
\* ROS_CREATE_SIMPLE_SERIALIZER(Type)::write
Simple_write(st, T, v) ==
  LET a == advance(st, W(SizeOf(T)))
  IN IF a.exc # "none" THEN a ELSE Store(a, st.data_, ObjectBytes(endian, T, v))

\* Serializer<bool>::write
Bool_write(st, v) ==
  LET b == IF v THEN 1 ELSE 0
      a == advance(st, W(1))
  IN IF a.exc # "none" THEN a ELSE Store(a, st.data_, <<b>>)

\* Serializer<std::basic_string>::write
String_write(st, str) ==
  LET len == W(Len(str))
      s1 == Simple_write(st, U32T, U32(len))
  IN IF Len(str) > 0
     THEN LET a == advance(s1, U32(len))
          IN IF a.exc # "none" THEN a ELSE Store(a, s1.data_, str)
     ELSE s1

\* Serializer<ros::Time>::write and Serializer<ros::Duration>::write
Time_write(st, T, v) ==
  LET F == IF Kind(T) = "time" THEN U32T ELSE <<"i32">>
  IN Simple_write(Simple_write(st, F, v[1]), F, v[2])

\* Serializer<T>::write, the default codec: t.serialize(stream.getData(), 0).
\* The value writes its own bytes at the raw pointer; the stream is not
\* advanced.
Default_write(st, v) ==
  IF st.exc # "none" THEN st ELSE Store(st, getData(st), v)

\* the flat object representation of a contiguous run of simple elements
RECURSIVE RunBytes(_, _)
RunBytes(T, v) ==
  IF v = <<>> THEN <<>>
  ELSE ObjectBytes(endian, T, Head(v)) \o RunBytes(T, Tail(v))

\* VectorSimple_write copying len bytes instead of len * sizeof(T)
VectorSimple_write_CountAsBytes(st, T, v) ==
  LET len == U32(W(Len(v)))
      s1 == Simple_write(st, U32T, len)
  IN IF v # <<>>
     THEN LET data_len == len
              a == advance(s1, data_len)
          IN IF a.exc # "none" THEN a
             ELSE Store(a, s1.data_, SubSeq(RunBytes(T, v), 1, WInt(data_len)))
     ELSE s1

\* VectorSerializer, fixed-size simple elements: write
VectorSimple_write(st, T, v) ==
  LET len == U32(W(Len(v)))
      s1 == Simple_write(st, U32T, len)
  IN IF v # <<>>
     THEN LET data_len == U32(WMul(len, SizeOf(T)))
              a == advance(s1, data_len)
          IN IF a.exc # "none" THEN a
             ELSE Store(a, s1.data_, SubSeq(RunBytes(T, v), 1, WInt(data_len)))
     ELSE s1

\* ArraySerializer, fixed-size simple elements: write
ArraySimple_write(st, T, N, v) ==
  LET data_len == U32(W(N * SizeOf(T)))
      a == advance(st, data_len)
  IN IF a.exc # "none" THEN a
     ELSE Store(a, st.data_, SubSeq(RunBytes(T, v), 1, WInt(data_len)))

RECURSIVE serialize(_, _, _), WriteEach(_, _, _)

\* for (; it != end; ++it) stream.next(*it), on an OStream
WriteEach(st, T, v) ==
  IF v = <<>> \/ st.exc # "none" THEN st
  ELSE WriteEach(serialize(st, T, Head(v)), T, Tail(v))

\* VectorSerializer, non-fixed-size elements: write
VectorNonFixed_write(st, T, v) ==
  WriteEach(Simple_write(st, U32T, U32(W(Len(v)))), T, v)

\* VectorSerializer, fixed-size non-simple elements: write
VectorFixed_write(st, T, v) ==
  WriteEach(Simple_write(st, U32T, U32(W(Len(v)))), T, v)

\* ArraySerializer, non-fixed-size and fixed-size non-simple elements: write
ArrayEach_write(st, T, v) == WriteEach(st, T, v)

\* serialize(stream, t) / OStream::next(t): the codec the type resolves to
serialize(st, T, v) ==
  IF st.exc # "none" THEN st
  ELSE CASE IsSimple(T) -> Simple_write(st, T, v)
         [] Kind(T) = "bool" -> Bool_write(st, v)
         [] Kind(T) = "str" -> String_write(st, v)
         [] Kind(T) \in {"time", "duration"} -> Time_write(st, T, v)
         [] Kind(T) = "vec" ->
              IF ~IsFixedSize(Elem(T)) THEN VectorNonFixed_write(st, Elem(T), v)
              ELSE IF IsSimple(Elem(T)) THEN VectorSimple_write(st, Elem(T), v)
              ELSE VectorFixed_write(st, Elem(T), v)
         [] Kind(T) = "arr" ->
              IF IsSimple(Elem(T)) THEN ArraySimple_write(st, Elem(T), Arity(T), v)
              ELSE ArrayEach_write(st, Elem(T), v)
         [] Kind(T) = "msg" -> Default_write(st, v)

\* ------------------------------------------------------ LStream: length
\* The LStream is its count_, a wide number.
RECURSIVE serializationLength(_, _, _), LengthEach(_, _, _)

\* for (; it != end; ++it) stream.next(*it), on an LStream
LengthEach(c, T, v) ==
  IF v = <<>> THEN c
  ELSE LengthEach(serializationLength(c, T, Head(v)), T, Tail(v))

\* VectorSerializer, non-fixed-size elements: serializedLength
VectorNonFixed_serializedLength(c, T, v) ==
  LengthEach(LStream_advance(c, W(4)), T, v)

\* VectorSerializer, fixed-size simple elements: serializedLength
VectorSimple_serializedLength(c, T, v) ==
  LStream_advance(c, W(4 + Len(v) * SizeOf(T)))

\* VectorFixed_serializedLength with the multiplication by v.size() left out
VectorFixed_serializedLength_OneElement(c, T, v) ==
  LET c1 == LStream_advance(c, W(4))
  IN IF v # <<>>
     THEN LStream_advance(c1, serializationLength(W(0), T, Head(v)))
     ELSE c1

\* VectorSerializer, fixed-size non-simple elements: serializedLength
VectorFixed_serializedLength(c, T, v) ==
  LET c1 == LStream_advance(c, W(4))
  IN IF v # <<>>
     THEN LStream_advance(c1, U32(WMul(serializationLength(W(0), T, Head(v)), Len(v))))
     ELSE c1

\* ArraySerializer, non-fixed-size elements: serializedLength
ArrayNonFixed_serializedLength(c, T, v) == LengthEach(c, T, v)

\* ArraySerializer, fixed-size simple elements: serializedLength
ArraySimple_serializedLength(c, T, N) == LStream_advance(c, W(N * SizeOf(T)))

\* ArraySerializer, fixed-size non-simple elements: serializedLength
ArrayFixed_serializedLength(c, T, N, v) ==
  LStream_advance(c, WMul(serializationLength(W(0), T, Head(v)), N))

\* Serializer<T>::serializedLength, the default codec:
\* stream.advance(t.serializationLength())
Default_serializedLength(c, v) == LStream_advance(c, W(Len(v)))

\* serializationLength(stream, t) / LStream::next(t)
serializationLength(c, T, v) ==
  CASE IsSimple(T) -> LStream_advance(c, W(SizeOf(T)))
    [] Kind(T) = "bool" -> LStream_advance(c, W(1))
    [] Kind(T) = "str" -> LStream_advance(c, U32(WAdd(W(4), U32(W(Len(v))))))
    [] Kind(T) \in {"time", "duration"} -> LStream_advance(c, W(8))
    [] Kind(T) = "vec" ->
         IF ~IsFixedSize(Elem(T)) THEN VectorNonFixed_serializedLength(c, Elem(T), v)
         ELSE IF IsSimple(Elem(T)) THEN VectorSimple_serializedLength(c, Elem(T), v)
         ELSE VectorFixed_serializedLength(c, Elem(T), v)
    [] Kind(T) = "arr" ->
         IF ~IsFixedSize(Elem(T)) THEN ArrayNonFixed_serializedLength(c, Elem(T), v)
         ELSE IF IsSimple(Elem(T)) THEN ArraySimple_serializedLength(c, Elem(T), Arity(T))
         ELSE ArrayFixed_serializedLength(c, Elem(T), Arity(T), v)
    [] Kind(T) = "msg" -> Default_serializedLength(c, v)

\* -------------------------------------------------------- IStream: read
\* A read yields the stream and the value read: [st, v].  v is the value
\* the out-parameter holds when the call returns normally (st.exc = "none").
RECURSIVE Default(_)
\* the default-constructed value of a type
Default(T) ==
  CASE IsSimple(T) -> IF SizeOf(T) = 4 THEN W(0) ELSE 0
    [] Kind(T) = "bool" -> FALSE
    [] Kind(T) \in {"time", "duration"} -> <<W(0), W(0)>>
    [] Kind(T) = "arr" -> [i \in 1..Arity(T) |-> Default(Elem(T))]
    [] OTHER -> <<>>

\* ROS_CREATE_SIMPLE_SERIALIZER(Type)::read
Simple_read(st, T) ==
  LET w == W(SizeOf(T))
      a == advance(st, w)
  IN IF a.exc # "none" THEN [st |-> a, v |-> Default(T)]
     ELSE [st |-> Touch(a, st.data_, w),
           v |-> ObjectValue(endian, T, Load(st, st.data_, w))]

\* Serializer<bool>::read taking only the byte 1 for true
Bool_read_OnlyOne(st) ==
  LET a == advance(st, W(1))
  IN IF a.exc # "none" THEN [st |-> a, v |-> FALSE]
     ELSE [st |-> Touch(a, st.data_, W(1)),
           v |-> Load(st, st.data_, W(1))[1] = 1]

\* Serializer<bool>::read
Bool_read(st) ==
  LET a == advance(st, W(1))
  IN IF a.exc # "none" THEN [st |-> a, v |-> FALSE]
     ELSE [st |-> Touch(a, st.data_, W(1)),
           v |-> Load(st, st.data_, W(1))[1] # 0]

\* Serializer<std::basic_string>::read
String_read(st) ==
  LET l == Simple_read(st, U32T)
      len == l.v
  IN IF l.st.exc # "none" THEN [st |-> l.st, v |-> <<>>]
     ELSE IF WLess(W(0), len)
     THEN LET a == advance(l.st, len)
          IN IF a.exc # "none" THEN [st |-> a, v |-> <<>>]
             ELSE [st |-> Touch(a, l.st.data_, len),
                   v |-> Load(l.st, l.st.data_, len)]
     ELSE [st |-> l.st, v |-> <<>>]

\* Serializer<ros::Time>::read and Serializer<ros::Duration>::read
Time_read(st, T) ==
  LET F == IF Kind(T) = "time" THEN U32T ELSE <<"i32">>
      sec == Simple_read(st, F)
      nsec == Simple_read(sec.st, F)
  IN [st |-> nsec.st, v |-> <<sec.v, nsec.v>>]

\* Serializer<T>::read, the default codec: t.__serialized_length =
\* stream.getLength(); t.deserialize(stream.getData()).  The value reads its
\* own bytes (MsgSize(T) of them) from the raw pointer; the stream is not
\* advanced.
Default_read(st, T) ==
  IF st.exc # "none" THEN [st |-> st, v |-> <<>>]
  ELSE [st |-> Touch(st, getData(st), W(MsgSize(T))),
        v |-> Load(st, getData(st), W(MsgSize(T)))]

\* the elements a run of bytes holds, SizeOf(T) bytes each
RECURSIVE RunValues(_, _)
RunValues(T, bytes) ==
  IF Len(bytes) < SizeOf(T) THEN <<>>
  ELSE <<ObjectValue(endian, T, SubSeq(bytes, 1, SizeOf(T)))>>
       \o RunValues(T, SubSeq(bytes, SizeOf(T) + 1, Len(bytes)))

\* v.resize(len) followed by a memcpy of the bytes into &v.front(): the
\* elements the copy does not reach keep their value-initialised 0
Resized(T, len, bytes) ==
  LET got == RunValues(T, bytes)
  IN [i \in 1..len |-> IF i <= Len(got) THEN got[i] ELSE Default(T)]

\* v.resize(len) for a uint32_t len read from the wire, then the memcpy: a
\* vector of 65536 elements or more is kept as <<"vector", its size, the
\* elements the copy reached>>
ResizedTo(T, len, bytes) ==
  IF len[1] = 0 THEN Resized(T, len[2], bytes)
  ELSE <<"vector", len, RunValues(T, bytes)>>

\* VectorSimple_read copying from getData() before it calls advance
VectorSimple_read_CopyFirst(st, T) ==
  LET l == Simple_read(st, U32T)
      len == l.v
  IN IF l.st.exc # "none" THEN [st |-> l.st, v |-> <<>>]
     ELSE IF WLess(W(0), len)
     THEN LET data_len == U32(WMul(len, SizeOf(T)))
              got == Load(l.st, l.st.data_, data_len)
              a == advance(Touch(l.st, l.st.data_, data_len), data_len)
          IN [st |-> a, v |-> ResizedTo(T, len, got)]
     ELSE [st |-> l.st, v |-> <<>>]

\* VectorSerializer, fixed-size simple elements: read
VectorSimple_read(st, T) ==
  LET l == Simple_read(st, U32T)
      len == l.v
  IN IF l.st.exc # "none" THEN [st |-> l.st, v |-> <<>>]
     ELSE IF WLess(W(0), len)
     THEN LET data_len == U32(WMul(len, SizeOf(T)))
              a == advance(l.st, data_len)
          IN IF a.exc # "none" THEN [st |-> a, v |-> <<>>]
             ELSE [st |-> Touch(a, l.st.data_, data_len),
                   v |-> ResizedTo(T, len, Load(l.st, l.st.data_, data_len))]
     ELSE [st |-> l.st, v |-> <<>>]

\* ArraySerializer, fixed-size simple elements: read
ArraySimple_read(st, T, N) ==
  LET data_len == U32(W(N * SizeOf(T)))
      a == advance(st, data_len)
  IN IF a.exc # "none" THEN [st |-> a, v |-> Default(<<"arr", T, N>>)]
     ELSE [st |-> Touch(a, st.data_, data_len),
           v |-> Resized(T, N, Load(st, st.data_, data_len))]

RECURSIVE deserialize(_, _), ReadEach(_, _, _, _)

\* ReadEach filling the container from its back
RECURSIVE ReadEach_Backwards(_, _, _, _)
ReadEach_Backwards(st, T, n, acc) ==
  IF n = 0 \/ st.exc # "none" THEN [st |-> st, v |-> acc]
  ELSE LET r == deserialize(st, T)
       IN ReadEach_Backwards(r.st, T, n - 1, <<r.v>> \o acc)

\* for (; it != end; ++it) stream.next(*it), on an IStream, over n elements;
\* acc holds the elements read so far
ReadEach(st, T, n, acc) ==
  IF n = 0 \/ st.exc # "none" THEN [st |-> st, v |-> acc]
  ELSE LET r == deserialize(st, T)
       IN ReadEach(r.st, T, n - 1, Append(acc, r.v))

\* VectorSerializer, non-fixed-size elements: read
VectorNonFixed_read(st, T) ==
  LET l == Simple_read(st, U32T)
  IN IF l.st.exc # "none" THEN [st |-> l.st, v |-> <<>>]
     ELSE ReadEach(l.st, T, WInt(l.v), <<>>)

\* VectorSerializer, fixed-size non-simple elements: read
VectorFixed_read(st, T) ==
  LET l == Simple_read(st, U32T)
  IN IF l.st.exc # "none" THEN [st |-> l.st, v |-> <<>>]
     ELSE ReadEach(l.st, T, WInt(l.v), <<>>)

\* ArraySerializer, non-fixed-size and fixed-size non-simple elements: read
ArrayEach_read(st, T, N) == ReadEach(st, T, N, <<>>)

\* deserialize(stream, t) / IStream::next(t)
deserialize(st, T) ==
  IF st.exc # "none" THEN [st |-> st, v |-> Default(T)]
  ELSE CASE IsSimple(T) -> Simple_read(st, T)
         [] Kind(T) = "bool" -> Bool_read(st)
         [] Kind(T) = "str" -> String_read(st)
         [] Kind(T) \in {"time", "duration"} -> Time_read(st, T)
         [] Kind(T) = "vec" ->
              IF ~IsFixedSize(Elem(T)) THEN VectorNonFixed_read(st, Elem(T))
              ELSE IF IsSimple(Elem(T)) THEN VectorSimple_read(st, Elem(T))
              ELSE VectorFixed_read(st, Elem(T))
         [] Kind(T) = "arr" ->
              IF IsSimple(Elem(T)) THEN ArraySimple_read(st, Elem(T), Arity(T))
              ELSE ArrayEach_read(st, Elem(T), Arity(T))
         [] Kind(T) = "msg" -> Default_read(st, T)

\* ------------------------------------------------------- message framing
\* new uint8_t[n]: n bytes nothing has written yet
NewBuffer(n) == [i \in 1..n |-> Indeterminate]

\* serializeMessage(message): the SerializedMessage returned (buf, num_bytes,
\* message_start) and the state in which the local OStream ends (st)
serializeMessage(T, v) ==
  LET len == serializationLength(W(0), T, v)
      num_bytes == U32(WAdd(len, W(4)))
      s0 == Stream(NewBuffer(WInt(num_bytes)), U32(num_bytes))
      s1 == serialize(s0, U32T, U32(WSub(U32(num_bytes), W(4))))
      s2 == serialize(s1, T, v)
  IN [kind |-> "message", ok |-> TRUE, num_bytes |-> num_bytes, buf |-> s2.buf,
      message_start |-> getData(s1), st |-> s2]

\* serializeServiceResponse writing num_bytes - 4 as the length, the way
\* serializeMessage does
serializeServiceResponse_Minus4(ok, T, v) ==
  IF ok
  THEN LET len == serializationLength(W(0), T, v)
           num_bytes == U32(WAdd(len, W(5)))
           s0 == Stream(NewBuffer(WInt(num_bytes)), U32(num_bytes))
           s1 == serialize(s0, <<"u8">>, 1)
           s2 == serialize(s1, U32T, U32(WSub(U32(num_bytes), W(4))))
           s3 == serialize(s2, T, v)
       IN [kind |-> "response", ok |-> TRUE, num_bytes |-> num_bytes,
           buf |-> s3.buf, message_start |-> W(0), st |-> s3]
  ELSE LET s0 == Stream(NewBuffer(5), W(5))
           s1 == serialize(s0, <<"u8">>, 0)
           s2 == serialize(s1, U32T, W(0))
       IN [kind |-> "response", ok |-> FALSE, num_bytes |-> W(5),
           buf |-> s2.buf, message_start |-> W(0), st |-> s2]

\* serializeServiceResponse(ok, message)
serializeServiceResponse(ok, T, v) ==
  IF ok
  THEN LET len == serializationLength(W(0), T, v)
           num_bytes == U32(WAdd(len, W(5)))
           s0 == Stream(NewBuffer(WInt(num_bytes)), U32(num_bytes))
           s1 == serialize(s0, <<"u8">>, 1)
           s2 == serialize(s1, U32T, U32(WSub(U32(num_bytes), W(5))))
           s3 == serialize(s2, T, v)
       IN [kind |-> "response", ok |-> TRUE, num_bytes |-> num_bytes,
           buf |-> s3.buf, message_start |-> W(0), st |-> s3]
  ELSE LET s0 == Stream(NewBuffer(5), W(5))
           s1 == serialize(s0, <<"u8">>, 0)
           s2 == serialize(s1, U32T, W(0))
       IN [kind |-> "response", ok |-> FALSE, num_bytes |-> W(5),
           buf |-> s2.buf, message_start |-> W(0), st |-> s2]

\* deserializeMessage(m, message, includes_length) for a message of type T:
\* the IStream it constructs (st0) and the read pass over it (r).  With the
\* flag the stream is IStream(m.buf.get() + 4, m.num_bytes - 4): the
\* difference is taken in an unsigned type and passed as a uint32_t count.
\* Offsets are counted from m.buf.get().
deserializeMessage(buf, num_bytes, T, includes_length) ==
  LET st0 == IF includes_length
             THEN LET count == U32(WSub(num_bytes, W(4)))
                  IN [Stream(buf, count) EXCEPT !.data_ = W(4),
                                                !.end_ = WAdd(W(4), count)]
             ELSE Stream(buf, U32(num_bytes))
  IN [st0 |-> st0, r |-> deserialize(st0, T)]

\* ------------------------------------------------------- checked values
\* sequences over D of length at most n
SeqsUpTo(D, n) == UNION {[1..k -> D] : k \in 0..n}

\* the values of each primitive type the passes are run on
PrimValues(T) ==
  CASE Kind(T) = "u8" -> {0, 1, 255}
    [] Kind(T) = "i8" -> {-128, -1, 127}
    [] Kind(T) = "u16" -> {258, 65535}
    [] Kind(T) = "i16" -> {-2, 258}
    [] Kind(T) = "u32" -> {W(0), W(16909060), <<65535, 65535>>}
    [] Kind(T) = "i32" -> {<<-32768, 0>>, W(16909060)}
    [] Kind(T) = "bool" -> BOOLEAN
    [] Kind(T) = "str" -> SeqsUpTo({0, 97}, MaxLen)
    [] Kind(T) = "time" -> {<<W(1), W(2)>>, <<<<65535, 65535>>, W(999999999)>>}
    [] Kind(T) = "duration" -> {<<W(-1), W(5)>>, <<W(7), W(-999999999)>>}
    [] Kind(T) = "msg" -> [1..MsgSize(T) -> {7, 9}]

PrimTypes ==
  {<<"u8">>, <<"i8">>, <<"u16">>, <<"i16">>, <<"u32">>, <<"i32">>, <<"bool">>,
   <<"str">>, <<"time">>, <<"duration">>} \cup {<<"msg", n>> : n \in 0..MaxLen}

\* the element types of the checked containers, and two values of each
ElemValues(T) ==
  CASE Kind(T) = "u8" -> {1, 255}
    [] Kind(T) = "i8" -> {-128, 127}
    [] Kind(T) = "u16" -> {258, 65535}
    [] Kind(T) = "u32" -> {W(16909060), <<65535, 65535>>}
    [] Kind(T) = "bool" -> BOOLEAN
    [] Kind(T) = "str" -> {<<>>, [i \in 1..MaxLen |-> 96 + i]}
    [] Kind(T) = "time" -> {<<W(1), W(2)>>, <<W(16909060), W(999999999)>>}
    [] Kind(T) = "duration" -> {<<W(-1), W(5)>>, <<W(7), W(-999999999)>>}
    [] Kind(T) = "vec" -> {<<>>, <<1, 255>>}
    [] Kind(T) = "arr" -> {<<258, 65535>>, <<65535, 258>>}
    [] Kind(T) = "msg" -> {<<7, 9>>, <<9, 7>>}

ElemTypes ==
  {<<"u8">>, <<"i8">>, <<"u16">>, <<"u32">>, <<"bool">>, <<"str">>, <<"time">>,
   <<"duration">>, <<"vec", <<"u8">>>>, <<"arr", <<"u16">>, 2>>, <<"msg", 2>>}

\* a value with its type: <<T, v>>
Values ==
  UNION {{<<T, v>> : v \in PrimValues(T)} : T \in PrimTypes}
  \cup UNION {{<<<<"vec", E>>, v>> : v \in SeqsUpTo(ElemValues(E), MaxLen)}
              : E \in ElemTypes}
  \cup UNION {UNION {{<<<<"arr", E, N>>, v>> : v \in [1..N -> ElemValues(E)]}
                     : N \in 1..MaxLen} : E \in ElemTypes}

\* a type none of whose parts goes through the default codec
RECURSIVE IsBuiltin(_)
IsBuiltin(T) ==
  CASE Kind(T) = "msg" -> FALSE
    [] Kind(T) \in {"vec", "arr"} -> IsBuiltin(Elem(T))
    [] OTHER -> TRUE

TypeOf(x) == x[1]
ValueOf(x) == x[2]

\* ---------------------------------------------------------- the passes
NoStream == Stream(<<>>, W(0))
NoMessage ==
  [kind |-> "none", ok |-> FALSE, num_bytes |-> W(0), buf |-> <<>>,
   message_start |-> W(0), st |-> NoStream]

\* An access outside the buffer is undefined behaviour: the pass may go on
\* as if nothing had happened, or the process may fault.
InBuffer(st, r) == WLeq(W(0), r[1]) /\ WLeq(r[2], W(Len(st.buf)))
OutOfBounds(st) == \E r \in st.touched : ~InBuffer(st, r)
Outcomes(st) ==
  IF st.exc = "none" /\ OutOfBounds(st) THEN {"none", "fault"} ELSE {st.exc}

Init ==
  /\ endian \in {"little", "big"}
  /\ val \in Values
  /\ lstream = [count_ |-> W(0), pass |-> "none"]
  /\ s = NoStream
  /\ pass = "none"
  /\ out = <<>>
  /\ ps = NoStream
  /\ m = NoMessage

\* uint32_t len = serializationLength(v): a length pass over a new LStream
SerializationLength ==
  /\ lstream.pass = "none"
  /\ pass = "none"
  /\ lstream' = [count_ |-> serializationLength(W(0), TypeOf(val), ValueOf(val)),
                 pass |-> "length"]
  /\ UNCHANGED <<endian, val, s, pass, out, ps, m>>

\* the buffer sizes a write pass is given: more than the computed length L,
\* exactly L, one byte less, and nothing
WriteCounts(L) == {L + Slack, L, 0} \cup (IF L >= 1 THEN {L - 1} ELSE {})

\* OStream stream(buffer, count); stream.next(v): a write pass over a new
\* buffer, sized from the computed length
Serialize(count) ==
  /\ lstream.pass = "length"
  /\ pass = "none"
  /\ LET r == serialize(Stream(NewBuffer(count), W(count)), TypeOf(val), ValueOf(val))
     IN \E o \in Outcomes(r) : s' = [r EXCEPT !.exc = o]
  /\ pass' = "write"
  /\ out' = <<>>
  /\ ps' = NoStream
  /\ UNCHANGED <<endian, val, lstream, m>>

\* IStream stream(buffer, count); stream.next(out): a read pass over the
\* first count bytes that a completed write pass left in a buffer of
\* exactly the computed length: all of them, or all but the last
Deserialize(count) ==
  /\ pass = "write"
  /\ s.exc = "none"
  /\ s.end_ = lstream.count_
  /\ count \in {Len(s.buf)} \cup (IF Len(s.buf) >= 1 THEN {Len(s.buf) - 1} ELSE {})
  /\ LET r == deserialize(Stream(SubSeq(s.buf, 1, count), W(count)), TypeOf(val))
     IN \E o \in Outcomes(r.st) :
          /\ s' = [r.st EXCEPT !.exc = o]
          /\ out' = r.v
  /\ pass' = "read"
  /\ ps' = NoStream
  /\ UNCHANGED <<endian, val, lstream, m>>

\* the bytes a received buffer may hold
RawBytes == {0, 1, 2, 255}

\* a read pass of a one- or two-byte primitive over received bytes
DeserializeRaw(bytes) ==
  /\ Kind(TypeOf(val)) \in {"bool", "u8", "i8", "u16", "i16"}
  /\ pass = "none"
  /\ lstream.pass = "none"
  /\ LET r == deserialize(Stream(bytes, W(Len(bytes))), TypeOf(val))
     IN /\ s' = r.st
        /\ out' = r.v
  /\ pass' = "rawread"
  /\ ps' = NoStream
  /\ UNCHANGED <<endian, val, lstream, m>>

\* the 32-bit counts a received buffer may start with: small ones, and
\* ones whose product with an element size of 2 or 4 passes 2^32
WireCounts ==
  {W(0), W(1), W(2), W(5), <<16384, 0>>, <<16384, 1>>, <<32768, 1>>,
   <<65535, 65535>>}

\* v.resize(len) allocates before anything checks len against the stream:
\* for 65536 elements or more it may throw (std::bad_alloc,
\* std::length_error) or succeed, as the memory of the host allows
ResizeOutcomes(T, len) ==
  IF Kind(T) = "vec" /\ len[1] > 0 THEN {"none", "alloc"} ELSE {"none"}

\* a read pass of a string or of a sequence of simple elements over a
\* received buffer: the count c, then the bytes rest
DeserializeCounted(c, rest) ==
  /\ \/ Kind(TypeOf(val)) = "str"
     \/ Kind(TypeOf(val)) = "vec" /\ IsSimple(Elem(TypeOf(val)))
  /\ pass = "none"
  /\ lstream.pass = "none"
  /\ LET buf == ObjectBytes(endian, U32T, c) \o rest
         s0 == Stream(buf, W(Len(buf)))
         r == deserialize(s0, TypeOf(val))
     IN \E o \in ResizeOutcomes(TypeOf(val), c) :
          IF o = "none"
          THEN s' = r.st /\ out' = r.v
          ELSE s' = [Simple_read(s0, U32T).st EXCEPT !.exc = o] /\ out' = <<>>
  /\ pass' = "counted"
  /\ ps' = NoStream
  /\ UNCHANGED <<endian, val, lstream, m>>

\* the same sequence of simple elements written by the per-element
\* strategy (the fixed-size non-simple VectorSerializer), into a buffer
\* as large as the one the bulk-copy pass got
SerializePerElement ==
  /\ pass = "write"
  /\ Kind(TypeOf(val)) = "vec"
  /\ IsSimple(Elem(TypeOf(val)))
  /\ ps' = VectorFixed_write(Stream(NewBuffer(Len(s.buf)), W(Len(s.buf))),
                             Elem(TypeOf(val)), ValueOf(val))
  /\ pass' = "perelement"
  /\ UNCHANGED <<endian, val, lstream, s, out, m>>

\* m = serializeMessage(v), after the passes a caller ran by hand
SerializeMessage ==
  /\ pass = "write"
  /\ m' = serializeMessage(TypeOf(val), ValueOf(val))
  /\ pass' = "message"
  /\ UNCHANGED <<endian, val, lstream, s, out, ps>>

\* m = serializeServiceResponse(ok, v)
SerializeServiceResponse(ok) ==
  /\ pass = "write"
  /\ m' = serializeServiceResponse(ok, TypeOf(val), ValueOf(val))
  /\ pass' = "response"
  /\ UNCHANGED <<endian, val, lstream, s, out, ps>>

\* deserializeMessage(m, message, includes_length) over a received buffer:
\* the first n bytes of what serializeMessage produced (with the flag) or
\* of its payload (without).  The message types are those whose read pass
\* does not branch on the bytes it reads; what a read outside the buffer
\* yields is indeterminate and not kept.
DeserializeMessage(includes_length, n) ==
  /\ pass = "message"
  /\ s.exc = "none"
  /\ s.end_ = lstream.count_
  /\ IsFixedSize(TypeOf(val)) \/ Kind(TypeOf(val)) = "msg"
  /\ n <= Len(m.buf) - (IF includes_length THEN 0 ELSE 4)
  /\ LET rb == IF includes_length THEN SubSeq(m.buf, 1, n)
               ELSE SubSeq(m.buf, 5, 4 + n)
         d == deserializeMessage(rb, W(n), TypeOf(val), includes_length)
     IN /\ m' = [m EXCEPT !.kind = "received", !.num_bytes = W(n), !.buf = rb,
                          !.message_start = d.st0.data_, !.st = d.st0]
        /\ \E o \in Outcomes(d.r.st) : s' = [d.r.st EXCEPT !.exc = o]
        /\ out' = IF OutOfBounds(d.r.st) THEN <<>> ELSE d.r.v
  /\ pass' = IF includes_length THEN "received_with_length" ELSE "received"
  /\ UNCHANGED <<endian, val, lstream, ps>>

\* a caller constructs a stream over count bytes
NewStream(count) ==
  /\ pass = "none"
  /\ lstream.pass = "none"
  /\ s' = Stream([i \in 1..count |-> 0], W(count))
  /\ pass' = "new"
  /\ UNCHANGED <<endian, val, lstream, out, ps, m>>

\* a caller calls stream.advance(len) on the stream it holds; an overrun
\* exception of an earlier call has been caught, the stream object lives on
Advance(len) ==
  /\ pass \in {"new", "advance"}
  /\ WLeq(s.data_, WAdd(s.end_, W(MaxAdvance)))
  /\ s' = advance([s EXCEPT !.exc = "none"], W(len))
  /\ pass' = "advance"
  /\ UNCHANGED <<endian, val, lstream, out, ps, m>>

Next ==
  \/ SerializationLength
  \/ \E count \in WriteCounts(WInt(lstream.count_)) : Serialize(count)
  \/ \E count \in 0..Len(s.buf) : Deserialize(count)
  \/ \E bytes \in SeqsUpTo(RawBytes, 2) : DeserializeRaw(bytes)
  \/ \E c \in WireCounts : \E n \in 0..MaxRest :
       DeserializeCounted(c, [i \in 1..n |-> 7])
  \/ SerializePerElement
  \/ SerializeMessage
  \/ \E ok \in BOOLEAN : SerializeServiceResponse(ok)
  \/ \E f \in BOOLEAN : \E n \in 0..Len(m.buf) : DeserializeMessage(f, n)
  \/ \E count \in 0..MaxCount : NewStream(count)
  \/ \E len \in 0..MaxAdvance : Advance(len)

Spec == Init /\ [][Next]_vars

\* ------------------------------------------------------------ properties
\* s is the stream of a write pass over the value
Wrote == pass \in {"write", "perelement", "message", "response"}

\* the computed length, once the length pass has run
L == lstream.count_

\* C1: for a value of a built-in type, a write pass that returns normally
\* has moved the cursor by exactly the count the length pass accumulated,
\* and a write pass over a buffer of at least that many bytes does return
\* normally.
C1_LengthEqualsBytesWritten ==
  (Wrote /\ IsBuiltin(TypeOf(val))) =>
    /\ s.exc = "none" => s.data_ = L
    /\ WLeq(L, s.end_) => s.exc = "none"

\* a sequence of two fixed-size non-simple elements has been written into
\* a buffer larger than its computed length
C1_Witness ==
  /\ pass = "write"
  /\ TypeOf(val) = <<"vec", <<"time">>>>
  /\ Len(ValueOf(val)) = 2
  /\ WLess(L, s.end_)
  /\ s.exc = "none"
  /\ s.data_ = W(20)

\* C2: for a value of a built-in type, the read pass over exactly the
\* bytes the write pass produced returns normally, has consumed them all,
\* and yields a value equal to the one written, elements in order.
C2_RoundTrip ==
  (pass = "read" /\ IsBuiltin(TypeOf(val)) /\ s.end_ = L) =>
    /\ s.exc = "none"
    /\ s.data_ = s.end_
    /\ out = ValueOf(val)

\* a sequence of two different strings has been read back
C2_Witness ==
  /\ pass = "read"
  /\ TypeOf(val) = <<"vec", <<"str">>>>
  /\ Len(ValueOf(val)) = 2
  /\ ValueOf(val)[1] # ValueOf(val)[2]
  /\ s.end_ = L
  /\ out = ValueOf(val)

\* C3: whenever the computed length L is at least 1, a write pass over a
\* buffer of L - 1 bytes ends in the overrun failure.
C3_TruncatedEncodeOverruns ==
  (Wrote /\ WLess(W(0), L) /\ s.end_ = WSub(L, W(1))) => s.exc = "overrun"

\* C4: a read pass over a non-empty encoding with its last byte removed
\* ends in the overrun failure.
C4_TruncatedDecodeOverruns ==
  (pass = "read" /\ WLess(W(0), L) /\ s.end_ = WSub(L, W(1))) => s.exc = "overrun"

\* C5: the cursor of a stream never lies past its end bound, whether the
\* advance calls made on it succeeded or failed.
C5_CursorWithinEnd == WLeq(s.data_, s.end_)

\* the exact encoding of the value is at hand: the write pass over a buffer
\* of exactly the computed length returned normally
ExactEncoding == s.exc = "none" /\ s.end_ = L

\* C6: serializeMessage returns L + 4 bytes: the 4-byte length L, then the
\* payload encoding, with message_start at offset 4; its write pass does
\* not overrun and ends with the cursor at the end of the buffer.
C6_MessageEnvelope ==
  pass = "message" =>
    /\ m.st.exc = "none"
    /\ m.num_bytes = WAdd(L, W(4))
    /\ Len(m.buf) = WInt(L) + 4
    /\ SubSeq(m.buf, 1, 4) = ObjectBytes(endian, U32T, L)
    /\ ExactEncoding => SubSeq(m.buf, 5, Len(m.buf)) = s.buf
    /\ m.message_start = W(4)
    /\ m.st.data_ = m.st.end_

\* C7: serializeServiceResponse(true, v) returns L + 5 bytes: the status
\* byte 1, the 4-byte length L, then the payload encoding;
\* serializeServiceResponse(false, v) returns exactly five zero bytes.
C7_ServiceResponseEnvelope ==
  pass = "response" =>
    /\ m.st.exc = "none"
    /\ m.ok =>
         /\ m.num_bytes = WAdd(L, W(5))
         /\ Len(m.buf) = WInt(L) + 5
         /\ m.buf[1] = 1
         /\ SubSeq(m.buf, 2, 5) = ObjectBytes(endian, U32T, L)
         /\ ExactEncoding => SubSeq(m.buf, 6, Len(m.buf)) = s.buf
    /\ ~m.ok =>
         /\ m.num_bytes = W(5)
         /\ m.buf = <<0, 0, 0, 0, 0>>

\* a successful reply carrying a payload of at least one byte, next to the
\* exact encoding of that payload
C7_Witness ==
  /\ pass = "response"
  /\ m.ok
  /\ ExactEncoding
  /\ Len(s.buf) >= 1
  /\ SubSeq(m.buf, 6, Len(m.buf)) = s.buf

\* C8: the length pass of a bool adds 1; the write pass writes the one
\* byte 1 for true and 0 for false; the read pass consumes one byte and
\* yields true exactly when that byte is not 0.
C8_BoolNormalization ==
  TypeOf(val) = <<"bool">> =>
    /\ lstream.pass = "length" => L = W(1)
    /\ (Wrote /\ s.exc = "none") =>
         /\ s.data_ = W(1)
         /\ s.touched = {<<W(0), W(1)>>}
         /\ s.buf[1] = IF ValueOf(val) THEN 1 ELSE 0
    /\ (pass = "rawread" /\ Len(s.buf) >= 1) =>
         /\ s.exc = "none"
         /\ s.data_ = W(1)
         /\ out = (s.buf[1] # 0)

\* the byte 2 has been decoded as true
C8_Witness ==
  /\ TypeOf(val) = <<"bool">>
  /\ pass = "rawread"
  /\ s.buf = <<2>>
  /\ s.data_ = W(1)
  /\ out = TRUE

\* C9: for a sequence of simple elements, the bulk-copy write and the
\* per-element write, when the former returns normally, leave the same
\* bytes in the buffer and the cursor at the same position.
C9_BulkCopyEquivalence ==
  (pass = "perelement" /\ s.exc = "none") =>
    /\ ps.exc = "none"
    /\ ps.buf = s.buf
    /\ ps.data_ = s.data_

\* two different two-byte elements have been written both ways
C9_Witness ==
  /\ pass = "perelement"
  /\ TypeOf(val) = <<"vec", <<"u16">>>>
  /\ Len(ValueOf(val)) = 2
  /\ ValueOf(val)[1] # ValueOf(val)[2]
  /\ s.exc = "none"
  /\ ps.buf = s.buf

\* every raw access of a pass lies in a range a successful advance returned
\* and below the end bound, and none was made after an advance had failed
Guarded(st) ==
  /\ ~st.late
  /\ \A r \in st.touched :
       /\ \E g \in st.granted : WLeq(g[1], r[1]) /\ WLeq(r[2], g[2])
       /\ WLeq(r[2], st.end_)

\* C10: in the passes over built-in types and containers of them, whatever
\* the buffer size, every byte written or read lies in a range returned by
\* a successful advance and below the end bound, and no byte is written or
\* read after an advance has failed.
C10_AccessWithinGranted ==
  IsBuiltin(TypeOf(val)) => Guarded(s) /\ Guarded(ps) /\ Guarded(m.st)

\* the read pass of a truncated sequence of simple elements has read the
\* count and failed on the bulk copy
C10_Witness ==
  /\ pass = "read"
  /\ TypeOf(val) = <<"vec", <<"u16">>>>
  /\ s.exc = "overrun"
  /\ s.touched = {<<W(0), W(4)>>}

\* the count a counted read pass found at the start of its buffer, the
\* bytes that followed it, and the size of one element (1 for a string)
WireCount == ObjectValue(endian, U32T, SubSeq(s.buf, 1, 4))
WireRest == W(Len(s.buf) - 4)
WireSize ==
  IF Kind(TypeOf(val)) = "str" THEN 1 ELSE SizeOf(Elem(TypeOf(val)))

\* C11: when the count a string or a sequence of simple elements starts
\* with, times the element size, exceeds the bytes that remain in the
\* stream, the read pass ends in the overrun failure, for every 32-bit
\* count.
C11_MalformedCountOverruns ==
  (pass = "counted" /\ WLess(WireRest, WMul(WireCount, WireSize))) =>
    s.exc = "overrun"

\* a user aggregate, or a sequence or array of user aggregates: a type
\* whose values go through the default codec
UsesDefault(T) ==
  \/ Kind(T) = "msg"
  \/ Kind(T) \in {"vec", "arr"} /\ Kind(Elem(T)) = "msg"

\* the bytes of the elements of a container of user aggregates, one after
\* the other
RECURSIVE Flatten(_)
Flatten(v) == IF v = <<>> THEN <<>> ELSE Head(v) \o Flatten(Tail(v))

\* the bytes of a buffer that follow the first n
After(buf, n) == SubSeq(buf, n + 1, Len(buf))

\* C12: a user aggregate, alone or as the elements of a sequence or array,
\* written or read through the default codec moves the cursor by its
\* self-reported length: a write pass into a buffer of exactly the computed
\* length ends with the cursor at that length, as the length pass did, with
\* the elements one after the other in the buffer, and the read pass over
\* these bytes ends with the cursor at that length too.
C12_DefaultCodecInStep ==
  (UsesDefault(TypeOf(val)) /\ pass \in {"write", "read"}
     /\ s.exc = "none" /\ s.end_ = L) =>
    /\ s.data_ = L
    /\ (pass = "write" /\ Kind(TypeOf(val)) = "vec") =>
         After(s.buf, 4) = Flatten(ValueOf(val))
    /\ (pass = "write" /\ Kind(TypeOf(val)) = "arr") =>
         s.buf = Flatten(ValueOf(val))

\* deserializeMessage has run over the received buffer m.buf of m.num_bytes
\* bytes; m.st is the IStream it constructed, s that stream after the read
Received == pass \in {"received", "received_with_length"}

\* C13: for every received buffer, shorter than 4 bytes included, and
\* either value of includes_length, the IStream that deserializeMessage
\* constructs starts at offset 4 (flag set) or 0 and ends no later than the
\* received buffer does; the read pass over a built-in type reads nothing
\* outside the buffer, and ends in the overrun failure when the stream is
\* shorter than the encoding.
C13_InboundWithinBuffer ==
  Received =>
    /\ m.st.data_ = (IF pass = "received_with_length" THEN W(4) ELSE W(0))
    /\ WLeq(m.st.end_, m.num_bytes)
    /\ IsBuiltin(TypeOf(val)) =>
         /\ ~OutOfBounds(s)
         /\ WLess(m.num_bytes, WAdd(m.st.data_, L)) => s.exc = "overrun"

====
